---- MODULE Spec2Model ----
(***************************************************************************)
(* quasiquotes.c._loader: create_callable(filename).                       *)
(*                                                                         *)
(* The module has one operation.  It parses its arguments, opens a shared  *)
(* object with dlopen, resolves `__qq_methoddef` with dlsym and wraps the  *)
(* resolved PyMethodDef with PyCFunction_NewEx.  The state around it is    *)
(* the dynamic loader's table of loaded objects, the loader's pending      *)
(* diagnostic (what dlerror() returns next), and the interpreter's heap of *)
(* builtin-function objects.  Host threads call the operation under the    *)
(* interpreter lock, which the body of create_callable never releases.     *)
(*                                                                         *)
(* Allocation failure inside the host runtime is not modelled.             *)
(***************************************************************************)
EXTENDS Integers, Sequences, FiniteSets, TLC

(* ----------------------------- bounds ---------------------------------- *)

\* number of host threads that call into the module
NumThreads == 2
\* total number of create_callable calls in one behaviour
MaxCalls == 3

Threads == 1..NumThreads

(* --------------------------- C-level values ---------------------------- *)

\* the null pointer, for char*, void* and PyMethodDef*
NULL == "NULL"
\* the symbol looked up at _loader.c:24
QQ_SYMBOL == "__qq_methoddef"

(* ------------------------ the files on disk ---------------------------- *)
(* Five paths, one for each case the loader can meet:                      *)
(*   libfoo.so   exports a METH_NOARGS descriptor whose function gives 42  *)
(*   libbar.so   exports a METH_O descriptor whose function gives arg + 1  *)
(*   nosym.so    loads, has no __qq_methoddef                              *)
(*   nullsym.so  loads, defines __qq_methoddef as an absolute symbol of    *)
(*               value 0 (ld --defsym __qq_methoddef=0)                    *)
(*   /nonexistent/path.so   no such file                                   *)

Objects == {"libfoo.so", "libbar.so", "nosym.so", "nullsym.so"}
Paths == Objects \cup {"/nonexistent/path.so"}

\* the address of the descriptor inside a mapped object
AddrOf(obj) == obj \o ":" \o QQ_SYMBOL

\* The value of an exported symbol of an object: "absent" when the object
\* does not define it, NULL when it defines it with value 0.
SymbolValue(obj, name) ==
    IF name # QQ_SYMBOL THEN "absent"
    ELSE CASE obj = "libfoo.so"  -> AddrOf(obj)
           [] obj = "libbar.so"  -> AddrOf(obj)
           [] obj = "nullsym.so" -> NULL
           [] OTHER              -> "absent"

\* The PyMethodDef record {ml_name, ml_meth, ml_flags, ml_doc} stored at an
\* address of a mapped object.
MethodDefAt(addr) ==
    CASE addr = AddrOf("libfoo.so") ->
           [ml_name |-> "foo", ml_meth |-> "foo_impl",
            ml_flags |-> "METH_NOARGS", ml_doc |-> ""]
      [] addr = AddrOf("libbar.so") ->
           [ml_name |-> "bar", ml_meth |-> "bar_impl",
            ml_flags |-> "METH_O", ml_doc |-> ""]

\* The native entry points: what the machine code at ml_meth computes from
\* the receiver and the argument it is handed.
NativeCall(meth, self, arg) ==
    CASE meth = "foo_impl" -> [self |-> self, value |-> 42]
      [] meth = "bar_impl" -> [self |-> self, value |-> arg + 1]

(* ------------------------ the OS loader -------------------------------- *)

\* the diagnostics dlerror() hands out
OpenDiag(path) == path \o ": cannot open shared object file: No such file or directory"
SymDiag(obj)   == obj \o ": undefined symbol: " \o QQ_SYMBOL

\* dlopen(path, RTLD_LAZY) on the loader table rc (reference counts) and
\* ini (how often each object's load-time initialisation ran).  A failed
\* open leaves the table alone and leaves a diagnostic pending; a successful
\* one returns the object's handle, counts a reference, and runs the
\* initialisers only when the object was not loaded before.
dlopen(path, rc, ini) ==
    IF path \in Objects
    THEN [handle |-> path,
          rc  |-> [rc EXCEPT ![path] = @ + 1],
          ini |-> IF rc[path] = 0 THEN [ini EXCEPT ![path] = @ + 1] ELSE ini,
          err |-> NULL]
    ELSE [handle |-> NULL, rc |-> rc, ini |-> ini, err |-> OpenDiag(path)]

\* dlsym(handle, name): the symbol's value.  A missing symbol gives NULL
\* with a diagnostic pending; a symbol whose value is 0 gives NULL with no
\* diagnostic.
dlsym(handle, name) ==
    IF SymbolValue(handle, name) = "absent"
    THEN [addr |-> NULL, err |-> SymDiag(handle)]
    ELSE [addr |-> SymbolValue(handle, name), err |-> NULL]

\* dlclose(handle): drops one reference.  create_callable never calls it.
dlclose(handle, rc) == [rc EXCEPT ![handle] = @ - 1]

\* What a dl call leaves for dlerror(): its own diagnostic when it failed,
\* else whatever was pending.
PendingAfter(pending, err) == IF err # NULL THEN err ELSE pending

(* ---------------------- arguments of a call ---------------------------- *)

Str(s)   == [type |-> "str", s |-> s, nul |-> FALSE]
\* a str with an embedded NUL character
NulStr   == [type |-> "str", s |-> "lib\\0foo.so", nul |-> TRUE]
\* an object that is not a str
NotAStr  == [type |-> "int", s |-> "7", nul |-> FALSE]

NoKw == {}
Kw(name, v) == {[name |-> name, val |-> v]}

\* The (args, kwargs) pairs the callers of the model pass.
CallArgs ==
    { [args |-> <<Str(p)>>, kwargs |-> NoKw] : p \in Paths }
    \cup { [args |-> <<>>, kwargs |-> Kw("filename", Str("libfoo.so"))],
           [args |-> <<>>, kwargs |-> NoKw],
           [args |-> <<NotAStr>>, kwargs |-> NoKw],
           [args |-> <<>>, kwargs |-> Kw("path", Str("libfoo.so"))],
           [args |-> <<Str("libfoo.so"), Str("libbar.so")>>, kwargs |-> NoKw],
           [args |-> <<NulStr>>, kwargs |-> NoKw] }

\* PyArg_ParseTupleAndKeywords(args, kwargs, "s:create_callable",
\* {"filename", NULL}, &filename): one required parameter, taken from the
\* first positional argument or from the keyword `filename`, converted by
\* "s": a str with no embedded NUL.
ConvertS(v) ==
    IF v.type # "str"
    THEN [ok |-> FALSE, filename |-> NULL, exc |-> "TypeError",
          msg |-> "argument 1 must be str"]
    ELSE IF v.nul
    THEN [ok |-> FALSE, filename |-> NULL, exc |-> "ValueError",
          msg |-> "embedded null character"]
    ELSE [ok |-> TRUE, filename |-> v.s, exc |-> "none", msg |-> NULL]

PyArg_ParseTupleAndKeywords(args, kwargs) ==
    IF Len(args) + Cardinality(kwargs) > 1
    THEN [ok |-> FALSE, filename |-> NULL, exc |-> "TypeError",
          msg |-> "create_callable() takes at most 1 argument"]
    ELSE IF Len(args) = 1
    THEN ConvertS(args[1])
    ELSE IF \E k \in kwargs : k.name = "filename"
    THEN ConvertS((CHOOSE k \in kwargs : k.name = "filename").val)
    ELSE IF kwargs = {}
    THEN [ok |-> FALSE, filename |-> NULL, exc |-> "TypeError",
          msg |-> "Required argument 'filename' (pos 1) not found"]
    ELSE [ok |-> FALSE, filename |-> NULL, exc |-> "TypeError",
          msg |-> "invalid keyword argument for create_callable()"]

(* ------------------------ the host runtime ----------------------------- *)

\* PyCFunction_NewEx changed to hand back the object already made for a
\* descriptor, as a per-descriptor cache would.
CachedNewEx(ml, self, module, h) ==
    IF \E f \in h : f.m_ml = ml
    THEN CHOOSE f \in h : f.m_ml = ml
    ELSE [id |-> Cardinality(h) + 1, m_ml |-> ml, m_self |-> self,
          m_module |-> module]

\* PyCFunction_NewEx(ml, self, module) on the heap h: a new builtin-function
\* object that points at the descriptor ml, never an existing object.
PyCFunction_NewEx(ml, self, module, h) ==
    [id |-> Cardinality(h) + 1, m_ml |-> ml, m_self |-> self,
     m_module |-> module]

\* The object whose image holds an address.
ObjectOf(addr) == CHOOSE o \in Objects : AddrOf(o) = addr

\* The native entry point of a descriptor, entered the way its flags
\* prescribe, with a receiver and the positional arguments a.
NativeEntry(ml, self, a) ==
    CASE ml.ml_flags = "METH_NOARGS" ->
           IF Len(a) = 0
           THEN [exc |-> "none", ret |-> NativeCall(ml.ml_meth, self, 0)]
           ELSE [exc |-> "TypeError", ret |-> [self |-> NULL, value |-> 0]]
      [] ml.ml_flags = "METH_O" ->
           IF Len(a) = 1
           THEN [exc |-> "none", ret |-> NativeCall(ml.ml_meth, self, a[1])]
           ELSE [exc |-> "TypeError", ret |-> [self |-> NULL, value |-> 0]]

\* Calling a builtin-function object with the positional arguments a: the
\* runtime reads the descriptor through m_ml and enters ml_meth with m_self
\* as receiver.
CFunctionCall(f, a) == NativeEntry(MethodDefAt(f.m_ml), f.m_self, a)

\* the argument tuples the callers pass to a returned callable
InvokeArgs == {<<>>, <<0>>, <<1>>}

(* ----------------------------- state ----------------------------------- *)

VARIABLES
    pc,          \* where each thread stands inside create_callable
    frame,       \* each thread's locals: args, kwargs, filename, sohandle, qq_methoddef
    gil,         \* the thread that holds the interpreter lock, 0 when it is free
    refcnt,      \* loader table: references held on each object
    inits,       \* loader table: runs of each object's load-time initialisation
    dlerr,       \* the diagnostic dlerror() returns next, or NULL
    heap,        \* the builtin-function objects created so far
    calls,       \* the finished calls, in order of return
    lastInvoke   \* the latest call of a returned callable

vars == <<pc, frame, gil, refcnt, inits, dlerr, heap, calls, lastInvoke>>

NoFrame ==
    [args |-> <<>>, kwargs |-> {}, filename |-> NULL, sohandle |-> NULL,
     qq_methoddef |-> NULL, nopen |-> 0, nsym |-> 0,
     before |-> [rc |-> [o \in Objects |-> 0], ini |-> [o \in Objects |-> 0]]]

NoInvoke == [id |-> 0, args |-> <<>>, exc |-> "none",
             ret |-> [self |-> NULL, value |-> 0]]

Init ==
    /\ pc = [t \in Threads |-> "idle"]
    /\ frame = [t \in Threads |-> NoFrame]
    /\ gil = 0
    /\ refcnt = [o \in Objects |-> 0]
    /\ inits = [o \in Objects |-> 0]
    /\ dlerr = NULL
    /\ heap = {}
    /\ calls = <<>>
    /\ lastInvoke = NoInvoke

\* a thread died inside the call
Crashed == \E t \in Threads : pc[t] = "segv"

Started == Len(calls) + Cardinality({t \in Threads : pc[t] # "idle"})

\* The record of a finished call: what it was given, how far it got, what
\* it returned (ret: the id of the callable, 0 for a NULL return), the error
\* it set, and the loader table before and after.
Finished(t, at, ret, exc, msg, rc, ini) ==
    [args |-> frame[t].args, kwargs |-> frame[t].kwargs,
     filename |-> frame[t].filename, sohandle |-> frame[t].sohandle,
     qq_methoddef |-> frame[t].qq_methoddef,
     nopen |-> frame[t].nopen, nsym |-> frame[t].nsym,
     at |-> at, ret |-> ret, exc |-> exc, msg |-> msg,
     before |-> frame[t].before, after |-> [rc |-> rc, ini |-> ini]]

\* return from create_callable: the frame is gone, the interpreter may run
\* another thread
Return(t, rec) ==
    /\ calls' = Append(calls, rec)
    /\ pc' = [pc EXCEPT ![t] = "idle"]
    /\ frame' = [frame EXCEPT ![t] = NoFrame]
    /\ gil' = 0

(* ---------------------------- actions ---------------------------------- *)

\* The interpreter calls create_callable(self, args, kwargs) on thread t.
\* It holds the interpreter lock while it runs a C function.
Call(t, a) ==
    /\ ~Crashed
    /\ pc[t] = "idle"
    /\ gil = 0
    /\ Started < MaxCalls
    /\ gil' = t
    /\ pc' = [pc EXCEPT ![t] = "parse"]
    /\ frame' = [frame EXCEPT ![t] =
                   [NoFrame EXCEPT !.args = a.args, !.kwargs = a.kwargs,
                                   !.before = [rc |-> refcnt, ini |-> inits]]]
    /\ UNCHANGED <<refcnt, inits, dlerr, heap, calls, lastInvoke>>

\* Parse without the `return NULL` of line 17: a failed parse falls through
\* to dlopen with whatever `filename` holds.
ParseNoReturn(t) ==
    /\ ~Crashed
    /\ pc[t] = "parse"
    /\ gil = t
    /\ LET r == PyArg_ParseTupleAndKeywords(frame[t].args, frame[t].kwargs) IN
         /\ frame' = [frame EXCEPT ![t].filename =
                         IF r.ok THEN r.filename ELSE "libfoo.so"]
         /\ pc' = [pc EXCEPT ![t] = "open"]
         /\ UNCHANGED <<gil, calls>>
    /\ UNCHANGED <<refcnt, inits, dlerr, heap, lastInvoke>>

\* _loader.c:12-18
Parse(t) ==
    /\ ~Crashed
    /\ pc[t] = "parse"
    /\ gil = t
    /\ LET r == PyArg_ParseTupleAndKeywords(frame[t].args, frame[t].kwargs) IN
         IF ~r.ok
         THEN Return(t, Finished(t, "parse", 0, r.exc, r.msg, refcnt, inits))
         ELSE /\ frame' = [frame EXCEPT ![t].filename = r.filename]
              /\ pc' = [pc EXCEPT ![t] = "open"]
              /\ UNCHANGED <<gil, calls>>
    /\ UNCHANGED <<refcnt, inits, dlerr, heap, lastInvoke>>

\* _loader.c:20, sohandle = dlopen(filename, RTLD_LAZY)
Open(t) ==
    /\ ~Crashed
    /\ pc[t] = "open"
    /\ gil = t
    /\ LET r == dlopen(frame[t].filename, refcnt, inits) IN
         /\ refcnt' = r.rc
         /\ inits' = r.ini
         /\ dlerr' = PendingAfter(dlerr, r.err)
         /\ frame' = [frame EXCEPT ![t].sohandle = r.handle,
                                   ![t].nopen = @ + 1]
         /\ pc' = [pc EXCEPT ![t] = IF r.handle = NULL THEN "open_failed"
                                    ELSE "sym"]
    /\ UNCHANGED <<gil, heap, calls, lastInvoke>>

\* PyErr_SetString(exception, string) with string = dlerror(): the message
\* is built with strlen(string).  A NULL string is undefined behaviour: the
\* thread dies on the read of address 0, or the read goes through and the
\* error is set with no diagnostic in it.
SetStringOutcomes(string) ==
    IF string = NULL THEN {"segv", "no diagnostic"} ELSE {"set"}

\* OpenFailed without the `return NULL` of line 22: the call goes on to
\* dlsym with the NULL handle.
OpenFailedNoReturn(t) ==
    /\ ~Crashed
    /\ pc[t] = "open_failed"
    /\ gil = t
    /\ dlerr' = NULL
    /\ pc' = [pc EXCEPT ![t] = "sym"]
    /\ UNCHANGED <<frame, gil, calls, refcnt, inits, heap, lastInvoke>>

\* OpenFailed raising PyExc_ImportError instead of PyExc_OSError.
OpenFailedImportError(t) ==
    /\ ~Crashed
    /\ pc[t] = "open_failed"
    /\ gil = t
    /\ dlerr' = NULL
    /\ \E out \in SetStringOutcomes(dlerr) :
         IF out = "segv"
         THEN /\ pc' = [pc EXCEPT ![t] = "segv"]
              /\ UNCHANGED <<frame, gil, calls>>
         ELSE Return(t, Finished(t, "open", 0, "ImportError", dlerr, refcnt, inits))
    /\ UNCHANGED <<refcnt, inits, heap, lastInvoke>>

\* _loader.c:21-22
OpenFailed(t) ==
    /\ ~Crashed
    /\ pc[t] = "open_failed"
    /\ gil = t
    /\ dlerr' = NULL
    /\ \E out \in SetStringOutcomes(dlerr) :
         IF out = "segv"
         THEN /\ pc' = [pc EXCEPT ![t] = "segv"]
              /\ UNCHANGED <<frame, gil, calls>>
         ELSE Return(t, Finished(t, "open", 0, "OSError", dlerr, refcnt, inits))
    /\ UNCHANGED <<refcnt, inits, heap, lastInvoke>>

\* _loader.c:24, qq_methoddef = dlsym(sohandle, "__qq_methoddef")
Sym(t) ==
    /\ ~Crashed
    /\ pc[t] = "sym"
    /\ gil = t
    /\ LET r == dlsym(frame[t].sohandle, QQ_SYMBOL) IN
         /\ dlerr' = PendingAfter(dlerr, r.err)
         /\ frame' = [frame EXCEPT ![t].qq_methoddef = r.addr,
                                   ![t].nsym = @ + 1]
         /\ pc' = [pc EXCEPT ![t] = IF r.addr = NULL THEN "sym_failed"
                                    ELSE "wrap"]
    /\ UNCHANGED <<gil, refcnt, inits, heap, calls, lastInvoke>>

\* SymFailed with a dlclose(sohandle) before the return.
SymFailedClose(t) ==
    /\ ~Crashed
    /\ pc[t] = "sym_failed"
    /\ gil = t
    /\ dlerr' = NULL
    /\ refcnt' = dlclose(frame[t].sohandle, refcnt)
    /\ \E out \in SetStringOutcomes(dlerr) :
         IF out = "segv"
         THEN /\ pc' = [pc EXCEPT ![t] = "segv"]
              /\ UNCHANGED <<frame, gil, calls>>
         ELSE Return(t, Finished(t, "sym", 0, "OSError", dlerr, refcnt', inits))
    /\ UNCHANGED <<inits, heap, lastInvoke>>

\* _loader.c:25-26
SymFailed(t) ==
    /\ ~Crashed
    /\ pc[t] = "sym_failed"
    /\ gil = t
    /\ dlerr' = NULL
    /\ \E out \in SetStringOutcomes(dlerr) :
         IF out = "segv"
         THEN /\ pc' = [pc EXCEPT ![t] = "segv"]
              /\ UNCHANGED <<frame, gil, calls>>
         ELSE Return(t, Finished(t, "sym", 0, "OSError", dlerr, refcnt, inits))
    /\ UNCHANGED <<refcnt, inits, heap, lastInvoke>>

\* Wrap passing the handle as the receiver:
\* PyCFunction_NewEx(qq_methoddef, sohandle, NULL).
WrapBound(t) ==
    /\ ~Crashed
    /\ pc[t] = "wrap"
    /\ gil = t
    /\ LET f == PyCFunction_NewEx(frame[t].qq_methoddef, frame[t].sohandle,
                                  NULL, heap) IN
         /\ heap' = heap \cup {f}
         /\ Return(t, Finished(t, "wrap", f.id, "none", NULL, refcnt, inits))
    /\ UNCHANGED <<refcnt, inits, dlerr, lastInvoke>>

\* Wrap with a dlclose(sohandle) once the callable is made.
WrapClose(t) ==
    /\ ~Crashed
    /\ pc[t] = "wrap"
    /\ gil = t
    /\ refcnt' = dlclose(frame[t].sohandle, refcnt)
    /\ LET f == PyCFunction_NewEx(frame[t].qq_methoddef, NULL, NULL, heap) IN
         /\ heap' = heap \cup {f}
         /\ Return(t, Finished(t, "wrap", f.id, "none", NULL, refcnt', inits))
    /\ UNCHANGED <<inits, dlerr, lastInvoke>>

\* _loader.c:28, return PyCFunction_NewEx(qq_methoddef, NULL, NULL)
Wrap(t) ==
    /\ ~Crashed
    /\ pc[t] = "wrap"
    /\ gil = t
    /\ LET f == PyCFunction_NewEx(frame[t].qq_methoddef, NULL, NULL, heap) IN
         /\ heap' = heap \cup {f}
         /\ Return(t, Finished(t, "wrap", f.id, "none", NULL, refcnt, inits))
    /\ UNCHANGED <<refcnt, inits, dlerr, lastInvoke>>

\* A thread calls a callable that create_callable returned.  The descriptor
\* lives in the object's image: reading it after the object is unmapped is
\* undefined behaviour.
Invoke(t, f, a) ==
    /\ ~Crashed
    /\ pc[t] = "idle"
    /\ gil = 0
    /\ f \in heap
    /\ IF refcnt[ObjectOf(f.m_ml)] = 0
       THEN /\ pc' = [pc EXCEPT ![t] = "segv"]
            /\ UNCHANGED lastInvoke
       ELSE /\ lastInvoke' = [id |-> f.id, args |-> a,
                              exc |-> CFunctionCall(f, a).exc,
                              ret |-> CFunctionCall(f, a).ret]
            /\ UNCHANGED pc
    /\ UNCHANGED <<frame, gil, refcnt, inits, dlerr, heap, calls>>

Next ==
    \/ \E t \in Threads, a \in CallArgs : Call(t, a)
    \/ \E t \in Threads : Parse(t)
    \/ \E t \in Threads : Open(t)
    \/ \E t \in Threads : OpenFailed(t)
    \/ \E t \in Threads : Sym(t)
    \/ \E t \in Threads : SymFailed(t)
    \/ \E t \in Threads : Wrap(t)
    \/ \E t \in Threads, f \in heap, a \in InvokeArgs : Invoke(t, f, a)

Spec == Init /\ [][Next]_vars

(* ------------------------- properties ---------------------------------- *)

FinishedCalls == {calls[i] : i \in 1..Len(calls)}

\* the callable a finished call returned
Returned(c) == CHOOSE f \in heap : f.id = c.ret

\* finished calls and running frames that hold a handle on object o
OpenedCount(o) ==
    Cardinality({i \in 1..Len(calls) : calls[i].sohandle = o})
    + Cardinality({t \in Threads : frame[t].sohandle = o})

\* the caller supplied a str as first positional argument or as the keyword
\* `filename`
HasStringFilename(args, kwargs) ==
    \/ Len(args) >= 1 /\ args[1].type = "str"
    \/ \E k \in kwargs : k.name = "filename" /\ k.val.type = "str"

\* C1: a call whose path names no loadable shared object fails with OSError
\* carrying the loader's diagnostic for that failed open, returns no
\* callable and never calls dlsym.
C1_OpenFailure ==
    /\ \A c \in FinishedCalls :
         (c.filename # NULL /\ c.filename \notin Objects) =>
            /\ c.exc = "OSError"
            /\ c.msg = OpenDiag(c.filename)
            /\ c.ret = 0
            /\ c.nsym = 0
    /\ \A t \in Threads :
         (frame[t].filename # NULL /\ frame[t].filename \notin Objects) =>
            /\ frame[t].nsym = 0
            /\ pc[t] \in {"open", "open_failed"}

C1_Witness ==
    \E c \in FinishedCalls :
        c.filename = "/nonexistent/path.so" /\ c.at = "open" /\ c.nopen = 1

\* C2: a call whose object loads and whose dlsym gives NULL fails with
\* OSError carrying the diagnostic of that failed dlsym, and returns no
\* callable.
C2_SymFailure ==
    /\ \A c \in FinishedCalls :
         (c.sohandle # NULL /\ c.nsym = 1 /\ c.qq_methoddef = NULL) =>
            /\ c.exc = "OSError"
            /\ c.msg = SymDiag(c.sohandle)
            /\ c.ret = 0
    /\ \A t \in Threads :
         (frame[t].sohandle # NULL /\ frame[t].nsym = 1
          /\ frame[t].qq_methoddef = NULL) => pc[t] = "sym_failed"

\* C3: for an object that exports a descriptor, the call returns a callable
\* with no receiver that points at that very descriptor, and calling it
\* gives what the descriptor's native entry point gives for the same
\* arguments.
C3_WrapsDescriptor ==
    /\ \A c \in FinishedCalls :
         (c.filename \in Objects
          /\ SymbolValue(c.filename, QQ_SYMBOL) \notin {"absent", NULL}) =>
            /\ c.ret # 0
            /\ c.exc = "none"
            /\ Returned(c).m_self = NULL
            /\ Returned(c).m_ml = AddrOf(c.filename)
    /\ \A c \in FinishedCalls :
         (c.ret # 0 /\ lastInvoke.id = c.ret) =>
            LET direct == NativeEntry(MethodDefAt(AddrOf(c.filename)), NULL,
                                      lastInvoke.args) IN
              /\ lastInvoke.exc = direct.exc
              /\ lastInvoke.ret = direct.ret

C3_Witness ==
    /\ lastInvoke.id # 0
    /\ lastInvoke.exc = "none"
    /\ lastInvoke.ret.value = 42
    /\ \E c \in FinishedCalls : c.ret = lastInvoke.id /\ c.filename = "libfoo.so"

\* C4: calls with the same valid path return distinct callables that point
\* at the same descriptor and answer every call alike, and each object's
\* load-time initialisation has run once, on its first open.
C4_Idempotent ==
    /\ \A i, j \in 1..Len(calls) :
         (i < j /\ calls[i].ret # 0 /\ calls[j].ret # 0
          /\ calls[i].filename = calls[j].filename) =>
            /\ calls[i].ret # calls[j].ret
            /\ Returned(calls[i]).m_ml = Returned(calls[j]).m_ml
            /\ \A a \in InvokeArgs :
                 CFunctionCall(Returned(calls[i]), a)
                   = CFunctionCall(Returned(calls[j]), a)
            /\ calls[j].before.ini[calls[j].filename] = 1
            /\ calls[j].after.ini[calls[j].filename] = 1
    /\ \A o \in Objects : inits[o] = IF refcnt[o] > 0 THEN 1 ELSE 0

C4_Witness ==
    \E i, j \in 1..Len(calls) :
        /\ i < j
        /\ calls[i].ret # 0 /\ calls[j].ret # 0
        /\ calls[i].filename = calls[j].filename
        /\ refcnt[calls[i].filename] = 2

C6_NeverUnloads ==
    /\ [](\A o \in Objects : refcnt[o] = OpenedCount(o))
    /\ [][\A o \in Objects : refcnt'[o] >= refcnt[o]]_vars

C6_Witness ==
    \E c \in FinishedCalls :
        c.at = "sym" /\ c.sohandle = "nosym.so" /\ refcnt["nosym.so"] = 2

\* C7: a call opens at most once and resolves at most once, ends as a
\* success (callable, no error) or as a failure (error, no callable), and
\* does nothing with the loader after a failed step.
C7_NoRetryTerminates ==
    /\ \A t \in Threads : frame[t].nopen <= 1 /\ frame[t].nsym <= 1
    /\ \A c \in FinishedCalls :
         /\ c.nopen <= 1 /\ c.nsym <= 1
         /\ (c.ret # 0) # (c.exc # "none")
         /\ c.at = "open" => c.nsym = 0
    /\ ~Crashed

\* C8: one thread at a time is inside create_callable, and every call
\* returns the callable of its own path or the diagnostic of its own failed
\* loader step.
C8_Serial ==
    /\ Cardinality({t \in Threads : pc[t] # "idle"}) <= 1
    /\ ~Crashed
    /\ \A c \in FinishedCalls :
         /\ c.ret # 0 => Returned(c).m_ml = AddrOf(c.filename)
         /\ c.at = "open" => c.msg = OpenDiag(c.filename)
         /\ c.at = "sym" => c.msg = SymDiag(c.sohandle)

\* C9: every returned callable points into an object that is still loaded:
\* the object's reference count is at least the number of callables
\* returned for it.
C9_NoDangling ==
    \A f \in heap :
        refcnt[ObjectOf(f.m_ml)] >= Cardinality({g \in heap : g.m_ml = f.m_ml})

C9_Witness ==
    \E f, g \in heap : f.id # g.id /\ f.m_ml = g.m_ml /\ lastInvoke.id = f.id

\* C10: a call given no str for `filename` fails before any loader
\* operation and leaves the loader table as it was; so does a call that
\* fails at the open step.
C10_FrameOfFailure ==
    /\ \A c \in FinishedCalls :
         ~HasStringFilename(c.args, c.kwargs) =>
            /\ c.ret = 0 /\ c.exc # "none"
            /\ c.nopen = 0 /\ c.nsym = 0
            /\ c.sohandle = NULL
            /\ c.after = c.before
    /\ \A t \in Threads :
         (pc[t] # "idle" /\ ~HasStringFilename(frame[t].args, frame[t].kwargs))
            => pc[t] = "parse" /\ frame[t].nopen = 0
    /\ \A c \in FinishedCalls : c.at = "open" => c.after = c.before

C10_Witness ==
    /\ \E c \in FinishedCalls :
         /\ ~HasStringFilename(c.args, c.kwargs)
         /\ c.before.rc["libfoo.so"] = 1
         /\ c.after.ini["libfoo.so"] = 1
    /\ \E c \in FinishedCalls : c.at = "open" /\ c.before.rc["libfoo.so"] = 1

====
